---- MODULE Spec2Model ----
(***************************************************************************)
(* Order creation and order/offer record operations of PaloVerde-Render.   *)
(*                                                                         *)
(* OrdersService (orders.service.ts) and OffersService (offers.service.ts) *)
(* are modelled as state machines over the Order Store, the payment        *)
(* gateway's session set, the Offer Store and the blob store.  Every       *)
(* `await` of a handler is a step boundary: calls of different requests    *)
(* interleave exactly there.                                               *)
(***************************************************************************)
EXTENDS Integers, Sequences, FiniteSets

(***************************************************************************)
(* Bounds of the model.                                                    *)
(***************************************************************************)
\* number of create(user) requests that may be in flight or finished
MaxCalls == 2
\* longest list of wish references a user holds
MaxWishes == 2
\* number of OffersService.create requests
MaxOfferCalls == 1

Calls == 1..MaxCalls
OfferCalls == 1..MaxOfferCalls

(***************************************************************************)
(* Input domains.                                                          *)
(***************************************************************************)
Users == {"u1", "u2"}
WishIds == {"w1", "w2"}
Materials == {"Canvas", "Paper"}
Prices == {0, 500, 1000}
Amounts == {1, 2}
Statuses == {"Pending", "Paid"}
Files == {"none", "photo"}

\* a fixed document per wish id
WishDoc(w) ==
    IF w = "w1"
    THEN [_id |-> "w1", material |-> "Canvas", sizePrice |-> 1000, photoPrice |-> 500, amount |-> 2]
    ELSE [_id |-> w, material |-> "Paper", sizePrice |-> 500, photoPrice |-> 0, amount |-> 1]

\* every document a wish id can have
WishDocs(w) ==
    [_id : {w}, material : Materials, sizePrice : Prices, photoPrice : Prices, amount : Amounts]

\* every sequence over S of length at most n
SeqsUpTo(S, n) == UNION {[1..k -> S] : k \in 0..n}

\* the lists of wish references of the users: any list for u1, and the same
\* list backwards for every other user
UserLists ==
    {[u \in Users |-> IF u = "u1" THEN l ELSE [i \in 1..Len(l) |-> l[Len(l) + 1 - i]]] :
        l \in SeqsUpTo(WishIds, MaxWishes)}

\* Wish Stores of fixed documents: every wish live, or w2 deleted while still
\* referenced
FixedStores == {[w \in S |-> WishDoc(w)] : S \in {WishIds, {"w1"}}}

\* Wish Stores of every live wish with any document
AnyStores == {st \in [WishIds -> UNION {WishDocs(w) : w \in WishIds}] :
                \A w \in WishIds : st[w]._id = w}

(***************************************************************************)
(* Errors raised by the collaborators.  `code` is a JavaScript value: a    *)
(* number (the persistence driver), a string (the gateway and the blob     *)
(* store) or undefined; `===` compares type and value.                     *)
(***************************************************************************)
NumCode(n) == [type |-> "number", num |-> n, str |-> ""]
StrCode(s) == [type |-> "string", num |-> 0, str |-> s]
Undefined == [type |-> "undefined", num |-> 0, str |-> ""]

\* the driver's duplicate-key error code tested by handelDBException
DuplicateKey == 11000

StrictEqNumber(code, n) == code.type = "number" /\ code.num = n

\* the persistence driver's errors: a duplicate key, and any other
DBErrors ==
    { [origin |-> "db", code |-> NumCode(DuplicateKey), keyValue |-> "{key:value}"],
      [origin |-> "db", code |-> Undefined, keyValue |-> ""] }

\* the gateway's errors carry a string code
GatewayErrors ==
    { [origin |-> "gateway", code |-> StrCode("parameter_invalid_integer"), keyValue |-> ""] }

UploadErrors ==
    { [origin |-> "upload", code |-> Undefined, keyValue |-> ""] }

NoError == [origin |-> "none", code |-> Undefined, keyValue |-> ""]

(***************************************************************************)
(* What a caller receives from a handler: a value, one of the framework's  *)
(* exceptions, or a collaborator's own error object.                       *)
(***************************************************************************)
Msg(text) == [text |-> text, id |-> 0, json |-> ""]
MsgId(text, id) == [text |-> text, id |-> id, json |-> ""]
MsgJson(text, json) == [text |-> text, id |-> 0, json |-> json]

NoValue == <<>>
InFlight == [kind |-> "pending", message |-> Msg(""), error |-> NoError, value |-> NoValue]
Returned(v) == [kind |-> "Ok", message |-> Msg(""), error |-> NoError, value |-> <<v>>]
NotFoundException(m) == [kind |-> "NotFound", message |-> m, error |-> NoError, value |-> NoValue]
BadRequestException(m) == [kind |-> "BadRequest", message |-> m, error |-> NoError, value |-> NoValue]
InternalServerErrorException(m) ==
    [kind |-> "InternalError", message |-> m, error |-> NoError, value |-> NoValue]
\* a rejection no handler translated: the collaborator's own error object
Rejected(e) == [kind |-> "RawError", message |-> Msg(""), error |-> e, value |-> NoValue]

(***************************************************************************)
(* State.                                                                  *)
(***************************************************************************)
VARIABLES
    wishStore,     \* Wish Store: wish id -> wish document
    userWishes,    \* User.wishes: user id -> list of wish references
    orders,        \* Order Store, in insertion order
    nextOrderId,   \* the identity the store gives the next inserted order
    sessions,      \* the checkout sessions the gateway holds
    clock,         \* logical time read by new Date()
    pc,            \* per create call: the await it is suspended at
    callUser,      \* per create call: the user argument
    wishes,        \* per create call: the populated wishes
    items,         \* per create call: the line items
    session,       \* per create call: the session the gateway returned
    order,         \* per create call: the record handed to orderModel.create
    result,        \* per create call: what the caller receives
    trace,         \* per create call: the collaborator calls it issued and the
                   \* writes they made, in order
    raised,        \* per create call: the error a collaborator raised, if any
    log,           \* OrdersService.logger, error severity
    crud,          \* the last findAll/findOne/update/remove and its outcome
    offers,        \* Offer Store
    uploads,       \* blob store: the files uploaded
    offerPc,       \* per offer create call: the await it is suspended at
    offerDto,      \* per offer create call: createOfferDto
    offerFile,     \* per offer create call: the file argument
    offerResult,   \* per offer create call: what the caller receives
    offerRaised,   \* per offer create call: the error a collaborator raised, if any
    offerLog       \* OffersService.logger, error severity

orderVars == <<orders, nextOrderId, sessions, clock, pc, callUser, wishes, items,
               session, order, result, trace, raised, log>>
offerVars == <<offers, uploads, offerPc, offerDto, offerFile, offerResult, offerRaised,
               offerLog>>
vars == <<wishStore, userWishes, orderVars, crud, offerVars>>

(***************************************************************************)
(* OrdersService.create: pure parts.                                       *)
(***************************************************************************)
\* userModel.findById(id, 'wishes').populate('wishes'): the documents of the
\* references, in order; a reference whose document is gone is dropped
Populate(refs) ==
    LET Live(w) == w \in DOMAIN wishStore
        kept == SelectSeq(refs, Live)
    IN [i \in 1..Len(kept) |-> wishStore[kept[i]]]

\* mutant of NoWishes: the emptiness test is lost
NoWishesNever(ws) == FALSE

\* if (!wishes.length || wishes.length === 0)
NoWishes(ws) == Len(ws) = 0

\* mutant of Items: the photo price is left out of the unit amount
ItemsSizeOnly(ws) ==
    [i \in 1..Len(ws) |->
        [price_data |->
            [product_data |-> [name |-> ws[i].material,
                               description |-> <<"Print on ", ws[i].material>>],
             currency |-> "usd",
             unit_amount |-> ws[i].sizePrice],
         quantity |-> ws[i].amount]]

\* wishes.map(wish => ({price_data: ..., quantity: wish.amount}))
Items(ws) ==
    [i \in 1..Len(ws) |->
        [price_data |->
            [product_data |-> [name |-> ws[i].material,
                               description |-> <<"Print on ", ws[i].material>>],
             currency |-> "usd",
             unit_amount |-> ws[i].sizePrice + ws[i].photoPrice],
         quantity |-> ws[i].amount]]

\* wishes.map(wish => wish._id)
WishRefs(ws) == [i \in 1..Len(ws) |-> ws[i]._id]

\* the total the gateway computes for a session: unit amount x quantity, summed
RECURSIVE AmountTotal(_)
AmountTotal(its) ==
    IF its = <<>> THEN 0
    ELSE its[1].price_data.unit_amount * its[1].quantity + AmountTotal(Tail(its))

\* the session stripe.checkout.sessions.create answers with
NewSession(its) ==
    [id |-> Cardinality(sessions) + 1,
     amount_total |-> AmountTotal(its),
     url |-> [host |-> "checkout", session |-> Cardinality(sessions) + 1],
     line_items |-> its,
     mode |-> "payment"]

\* mutant of OrderRecord: paid is taken from the first line item's unit amount
OrderRecordUnitAmount(s, u, ws) ==
    [createdAt |-> clock,
     paid |-> s.line_items[1].price_data.unit_amount,
     status |-> "Pending",
     paymentLink |-> s.url,
     user |-> u,
     wishes |-> WishRefs(ws)]

\* const order = { createdAt, paid, status, paymentLink, user, wishes }
OrderRecord(s, u, ws) ==
    [createdAt |-> clock,
     paid |-> s.amount_total,
     status |-> "Pending",
     paymentLink |-> s.url,
     user |-> u,
     wishes |-> WishRefs(ws)]

\* the document the store makes of an inserted record
Document(rec, id) ==
    [_id |-> id, createdAt |-> rec.createdAt, paid |-> rec.paid, status |-> rec.status,
     paymentLink |-> rec.paymentLink, user |-> rec.user, wishes |-> rec.wishes]

\* mutant of handelDBException: an error that is no duplicate key is rethrown
handelDBExceptionRethrow(error) ==
    IF StrictEqNumber(error.code, DuplicateKey)
    THEN BadRequestException(MsgJson("Order already exists, ", error.keyValue))
    ELSE Rejected(error)

\* OrdersService.handelDBException: what it throws
handelDBException(error) ==
    IF StrictEqNumber(error.code, DuplicateKey)
    THEN BadRequestException(MsgJson("Order already exists, ", error.keyValue))
    ELSE InternalServerErrorException(Msg("Unexpected error, check server logs"))

\* OrdersService.handelDBException: what it logs
handelDBExceptionLog(error) ==
    IF StrictEqNumber(error.code, DuplicateKey) THEN <<>> ELSE <<error>>

NoSession == [id |-> 0, amount_total |-> 0, url |-> [host |-> "", session |-> 0],
              line_items |-> <<>>, mode |-> ""]
NoOrder == [createdAt |-> 0, paid |-> 0, status |-> "", paymentLink |-> NoSession.url,
            user |-> "", wishes |-> <<>>]
NoCrud == [op |-> "none", id |-> 0, patch |-> <<>>, found |-> <<>>, outcome |-> InFlight]

(***************************************************************************)
(* Initial state: empty stores, some wish documents, each user holding a   *)
(* list of wish references, no request started.                            *)
(***************************************************************************)
InitWith(stores, lists) ==
    /\ wishStore \in stores
    /\ userWishes \in lists
    /\ orders = <<>>
    /\ nextOrderId = 1
    /\ sessions = {}
    /\ clock = 0
    /\ pc = [c \in Calls |-> "idle"]
    /\ callUser = [c \in Calls |-> ""]
    /\ wishes = [c \in Calls |-> <<>>]
    /\ items = [c \in Calls |-> <<>>]
    /\ session = [c \in Calls |-> NoSession]
    /\ order = [c \in Calls |-> NoOrder]
    /\ result = [c \in Calls |-> InFlight]
    /\ trace = [c \in Calls |-> <<>>]
    /\ raised = [c \in Calls |-> NoError]
    /\ log = <<>>
    /\ crud = NoCrud
    /\ offers = <<>>
    /\ uploads = {}
    /\ offerPc = [k \in OfferCalls |-> "idle"]
    /\ offerDto = [k \in OfferCalls |-> [image |-> "No_image"]]
    /\ offerFile = [k \in OfferCalls |-> "none"]
    /\ offerResult = [k \in OfferCalls |-> InFlight]
    /\ offerRaised = [k \in OfferCalls |-> NoError]
    /\ offerLog = <<>>

(***************************************************************************)
(* OrdersService.create(user), one action per await and outcome.           *)
(***************************************************************************)
\* the request arrives and the user query is issued
Create(c, u) ==
    /\ pc[c] = "idle"
    /\ pc' = [pc EXCEPT ![c] = "findById"]
    /\ callUser' = [callUser EXCEPT ![c] = u]
    /\ trace' = [trace EXCEPT ![c] = Append(@, "findById")]
    /\ UNCHANGED <<wishStore, userWishes, orders, nextOrderId, sessions, clock, wishes,
                   items, session, order, result, raised, log, crud, offerVars>>

\* the populated wishes arrive: NotFound when empty, else line items and the
\* gateway request
FetchWishes(c) ==
    /\ pc[c] = "findById"
    /\ LET ws == Populate(userWishes[callUser[c]]) IN
        /\ wishes' = [wishes EXCEPT ![c] = ws]
        /\ IF NoWishes(ws)
           THEN /\ result' = [result EXCEPT ![c] = NotFoundException(Msg("No wishes found"))]
                /\ pc' = [pc EXCEPT ![c] = "done"]
                /\ UNCHANGED <<items, trace>>
           ELSE /\ items' = [items EXCEPT ![c] = Items(ws)]
                /\ pc' = [pc EXCEPT ![c] = "sessions.create"]
                /\ trace' = [trace EXCEPT ![c] = Append(@, "sessions.create")]
                /\ result' = result
    /\ UNCHANGED <<wishStore, userWishes, orders, nextOrderId, sessions, clock, callUser,
                   session, order, raised, log, crud, offerVars>>

\* mutant of SessionCreated: the gateway request is sent twice
SessionCreatedTwice(c) ==
    /\ pc[c] = "sessions.create"
    /\ LET s == NewSession(items[c])
           t == [s EXCEPT !.id = s.id + 1, !.url.session = s.id + 1]
       IN
        /\ sessions' = sessions \cup {s, t}
        /\ session' = [session EXCEPT ![c] = t]
        /\ order' = [order EXCEPT ![c] = OrderRecord(t, callUser[c], wishes[c])]
    /\ clock' = clock + 1
    /\ trace' = [trace EXCEPT ![c] = @ \o <<"session", "sessions.create", "session",
                                             "orderModel.create">>]
    /\ pc' = [pc EXCEPT ![c] = "orderModel.create"]
    /\ UNCHANGED <<wishStore, userWishes, orders, nextOrderId, callUser, wishes, items,
                   result, raised, log, crud, offerVars>>

\* the gateway answers with a session: the order record is built and its
\* insert issued
SessionCreated(c) ==
    /\ pc[c] = "sessions.create"
    /\ LET s == NewSession(items[c]) IN
        /\ sessions' = sessions \cup {s}
        /\ session' = [session EXCEPT ![c] = s]
        /\ order' = [order EXCEPT ![c] = OrderRecord(s, callUser[c], wishes[c])]
    /\ clock' = clock + 1
    /\ trace' = [trace EXCEPT ![c] = @ \o <<"session", "orderModel.create">>]
    /\ pc' = [pc EXCEPT ![c] = "orderModel.create"]
    /\ UNCHANGED <<wishStore, userWishes, orders, nextOrderId, callUser, wishes, items,
                   result, raised, log, crud, offerVars>>

\* the gateway call throws inside the try block: catch, handelDBException
SessionFailed(c, e) ==
    /\ pc[c] = "sessions.create"
    /\ raised' = [raised EXCEPT ![c] = e]
    /\ result' = [result EXCEPT ![c] = handelDBException(e)]
    /\ log' = log \o handelDBExceptionLog(e)
    /\ pc' = [pc EXCEPT ![c] = "done"]
    /\ UNCHANGED <<wishStore, userWishes, orders, nextOrderId, sessions, clock, callUser,
                   wishes, items, session, order, trace, crud, offerVars>>

\* mutant of OrderInserted: an order of the same user over the same wishes is
\* answered instead of a second insert
OrderInsertedOnce(c) ==
    /\ pc[c] = "orderModel.create"
    /\ LET doc == Document(order[c], nextOrderId)
           same == SelectSeq(orders, LAMBDA d : d.user = doc.user /\ d.wishes = doc.wishes)
       IN
        IF same # <<>>
        THEN /\ result' = [result EXCEPT ![c] = Returned(same[1])]
             /\ UNCHANGED <<orders, nextOrderId, trace>>
        ELSE /\ orders' = Append(orders, doc)
             /\ result' = [result EXCEPT ![c] = Returned(doc)]
             /\ nextOrderId' = nextOrderId + 1
             /\ trace' = [trace EXCEPT ![c] = Append(@, "insert")]
    /\ pc' = [pc EXCEPT ![c] = "done"]
    /\ UNCHANGED <<wishStore, userWishes, sessions, clock, callUser, wishes, items,
                   session, order, raised, log, crud, offerVars>>

\* the insert succeeds: the promise create returned resolves with the document
OrderInserted(c) ==
    /\ pc[c] = "orderModel.create"
    /\ LET doc == Document(order[c], nextOrderId) IN
        /\ orders' = Append(orders, doc)
        /\ result' = [result EXCEPT ![c] = Returned(doc)]
    /\ nextOrderId' = nextOrderId + 1
    /\ trace' = [trace EXCEPT ![c] = Append(@, "insert")]
    /\ pc' = [pc EXCEPT ![c] = "done"]
    /\ UNCHANGED <<wishStore, userWishes, sessions, clock, callUser, wishes, items,
                   session, order, raised, log, crud, offerVars>>

\* what create's caller gets when the promise of orderModel.create rejects:
\* `return this.orderModel.create(order)` hands the promise back without
\* awaiting it, so create has left its try block when the rejection arrives
\* and the catch clause never sees it
CreateRejection(e) == Rejected(e)

\* mutant of OrderInsertFailed: the session is expired when the insert fails
OrderInsertFailedCompensated(c, e) ==
    /\ pc[c] = "orderModel.create"
    /\ raised' = [raised EXCEPT ![c] = e]
    /\ result' = [result EXCEPT ![c] = CreateRejection(e)]
    /\ sessions' = sessions \ {session[c]}
    /\ pc' = [pc EXCEPT ![c] = "done"]
    /\ UNCHANGED <<wishStore, userWishes, orders, nextOrderId, clock, callUser,
                   wishes, items, session, order, trace, log, crud, offerVars>>

\* the insert fails
OrderInsertFailed(c, e) ==
    /\ pc[c] = "orderModel.create"
    /\ raised' = [raised EXCEPT ![c] = e]
    /\ result' = [result EXCEPT ![c] = CreateRejection(e)]
    /\ pc' = [pc EXCEPT ![c] = "done"]
    /\ UNCHANGED <<wishStore, userWishes, orders, nextOrderId, sessions, clock, callUser,
                   wishes, items, session, order, trace, log, crud, offerVars>>

(***************************************************************************)
(* Order record operations: findAll, findOne, update, remove.  Each is one *)
(* store operation, atomic at the record level.                            *)
(***************************************************************************)
\* every identity the store can have handed out
OrderIds == 1..MaxCalls

\* orderModel.findById(id): the matching documents (none or one)
FindById(id) == SelectSeq(orders, LAMBDA d : d._id = id)

\* PaginationDto: limit and offset, each optional
PaginationDtos == UNION {[F -> 0..1] : F \in SUBSET {"limit", "offset"}}

\* const { limit = 10, offset = 0 } = paginationDto
DefaultLimit == 10
DefaultOffset == 0
LimitOf(dto) == IF "limit" \in DOMAIN dto THEN dto["limit"] ELSE DefaultLimit
OffsetOf(dto) == IF "offset" \in DOMAIN dto THEN dto["offset"] ELSE DefaultOffset

\* orderModel.find().limit(limit).skip(offset): skip first, then at most
\* limit documents; a limit of 0 is no limit
Page(limit, offset) ==
    LET last == IF limit = 0 \/ offset + limit > Len(orders) THEN Len(orders)
                ELSE offset + limit
    IN SubSeq(orders, offset + 1, last)

\* UpdateOrderDto: the fields a patch may carry, each optional
UpdateOrderDtos == UNION {[F -> Statuses] : F \in SUBSET {"status"}}

\* mutant of ApplyPatch: the patch replaces the document instead of being $set
ApplyPatchOverwrite(doc, patch) ==
    [f \in DOMAIN doc |-> IF f \in DOMAIN patch THEN patch[f]
                          ELSE IF f = "_id" THEN doc[f] ELSE NoOrder[f]]

\* findByIdAndUpdate's $set of the patch on one document
ApplyPatch(doc, patch) ==
    [f \in DOMAIN doc |-> IF f \in DOMAIN patch THEN patch[f] ELSE doc[f]]

\* mutant of UpdateResult: without { new: true } the document before the update
UpdateResultOld(doc, patch) == doc

\* { new: true }: findByIdAndUpdate answers with the document after the update
UpdateResult(doc, patch) == ApplyPatch(doc, patch)

NotFoundOrder(id) == NotFoundException(MsgId("Order with id: '{id}' not found", id))

findAll(paginationDto) ==
    /\ crud' = [op |-> "findAll", id |-> 0, patch |-> <<>>, found |-> <<>>,
                outcome |-> Returned(Page(LimitOf(paginationDto), OffsetOf(paginationDto)))]
    /\ UNCHANGED <<wishStore, userWishes, orderVars, offerVars>>

findOne(id) ==
    /\ LET found == FindById(id) IN
        crud' = [op |-> "findOne", id |-> id, patch |-> <<>>, found |-> found,
                 outcome |-> IF found = <<>> THEN NotFoundOrder(id) ELSE Returned(found[1])]
    /\ UNCHANGED <<wishStore, userWishes, orderVars, offerVars>>

\* findByIdAndUpdate(id, updateOrderDto, { new: true })
update(id, updateOrderDto) ==
    /\ LET found == FindById(id) IN
        /\ orders' = [i \in 1..Len(orders) |->
                        IF orders[i]._id = id THEN ApplyPatch(orders[i], updateOrderDto)
                        ELSE orders[i]]
        /\ crud' = [op |-> "update", id |-> id, patch |-> updateOrderDto, found |-> found,
                    outcome |-> IF found = <<>> THEN NotFoundOrder(id)
                                ELSE Returned(UpdateResult(found[1], updateOrderDto))]
    /\ UNCHANGED <<wishStore, userWishes, nextOrderId, sessions, clock, pc, callUser,
                   wishes, items, session, order, result, trace, raised, log, offerVars>>

\* findByIdAndDelete(id)
remove(id) ==
    /\ LET found == FindById(id) IN
        /\ orders' = SelectSeq(orders, LAMBDA d : d._id # id)
        /\ crud' = [op |-> "remove", id |-> id, patch |-> <<>>, found |-> found,
                    outcome |-> IF found = <<>> THEN NotFoundOrder(id)
                                ELSE Returned("Order with the id: '{id}' was removed")]
    /\ UNCHANGED <<wishStore, userWishes, nextOrderId, sessions, clock, pc, callUser,
                   wishes, items, session, order, result, trace, raised, log, offerVars>>

(***************************************************************************)
(* OffersService.create(createOfferDto, file).                             *)
(***************************************************************************)
\* the secure_url the blob store gives an uploaded file
SecureUrl(file) == <<"https://res/", file, ".jpg">>
NoImage == <<"No_image">>

\* OffersService.handelDBException: what it throws
offersHandelDBException(error) ==
    IF StrictEqNumber(error.code, DuplicateKey)
    THEN BadRequestException(MsgJson("Offer already exists, ", error.keyValue))
    ELSE InternalServerErrorException(Msg("Unexpected error, check server logs"))

\* OffersService.handelDBException: what it logs
offersHandelDBExceptionLog(error) ==
    IF StrictEqNumber(error.code, DuplicateKey) THEN <<>> ELSE <<error>>

\* the request arrives: with a file the upload is issued, without one the insert
OfferCreate(k, file) ==
    /\ offerPc[k] = "idle"
    /\ offerFile' = [offerFile EXCEPT ![k] = file]
    /\ offerPc' = [offerPc EXCEPT ![k] = IF file # "none" THEN "uploadFile"
                                          ELSE "offerModel.create"]
    /\ UNCHANGED <<wishStore, userWishes, orderVars, crud, offers, uploads, offerDto,
                   offerResult, offerRaised, offerLog>>

\* the upload succeeds: the dto takes the url and the insert is issued
OfferUploaded(k) ==
    /\ offerPc[k] = "uploadFile"
    /\ uploads' = uploads \cup {SecureUrl(offerFile[k])}
    /\ offerDto' = [offerDto EXCEPT ![k].image = SecureUrl(offerFile[k])]
    /\ offerPc' = [offerPc EXCEPT ![k] = "offerModel.create"]
    /\ UNCHANGED <<wishStore, userWishes, orderVars, crud, offers, offerFile,
                   offerResult, offerRaised, offerLog>>

\* the upload throws inside the try block: catch, handelDBException
OfferUploadFailed(k, e) ==
    /\ offerPc[k] = "uploadFile"
    /\ offerRaised' = [offerRaised EXCEPT ![k] = e]
    /\ offerResult' = [offerResult EXCEPT ![k] = offersHandelDBException(e)]
    /\ offerLog' = offerLog \o offersHandelDBExceptionLog(e)
    /\ offerPc' = [offerPc EXCEPT ![k] = "done"]
    /\ UNCHANGED <<wishStore, userWishes, orderVars, crud, offers, uploads, offerDto,
                   offerFile>>

\* the insert succeeds
OfferInserted(k) ==
    /\ offerPc[k] = "offerModel.create"
    /\ LET doc == [_id |-> Len(offers) + 1, image |-> offerDto[k].image] IN
        /\ offers' = Append(offers, doc)
        /\ offerResult' = [offerResult EXCEPT ![k] = Returned(doc)]
    /\ offerPc' = [offerPc EXCEPT ![k] = "done"]
    /\ UNCHANGED <<wishStore, userWishes, orderVars, crud, uploads, offerDto, offerFile,
                   offerRaised, offerLog>>

\* what the caller gets when the promise of offerModel.create rejects:
\* `return this.offerModel.create(createOfferDto)` is not awaited either
OfferCreateRejection(e) == Rejected(e)

\* the insert fails
OfferInsertFailed(k, e) ==
    /\ offerPc[k] = "offerModel.create"
    /\ offerRaised' = [offerRaised EXCEPT ![k] = e]
    /\ offerResult' = [offerResult EXCEPT ![k] = OfferCreateRejection(e)]
    /\ offerPc' = [offerPc EXCEPT ![k] = "done"]
    /\ UNCHANGED <<wishStore, userWishes, orderVars, crud, offers, uploads, offerDto,
                   offerFile, offerLog>>

(***************************************************************************)
(* Specifications.                                                         *)
(***************************************************************************)
CreateStep(c) ==
    \/ \E u \in Users : Create(c, u)
    \/ FetchWishes(c)
    \/ SessionCreated(c)
    \/ \E e \in GatewayErrors : SessionFailed(c, e)
    \/ OrderInserted(c)
    \/ \E e \in DBErrors : OrderInsertFailed(c, e)

\* Concurrent order creation: MaxCalls requests of any users, interleaved at
\* their awaits.
Init == InitWith(FixedStores, UserLists)

Next == \E c \in Calls : CreateStep(c)

Spec == Init /\ [][Next]_vars

\* Order creation and offer creation side by side.
NextErrors ==
    \/ \E c \in Calls : CreateStep(c)
    \/ \E k \in OfferCalls, f \in Files : OfferCreate(k, f)
    \/ \E k \in OfferCalls : OfferUploaded(k)
    \/ \E k \in OfferCalls, e \in UploadErrors : OfferUploadFailed(k, e)
    \/ \E k \in OfferCalls : OfferInserted(k)
    \/ \E k \in OfferCalls, e \in DBErrors : OfferInsertFailed(k, e)

InitErrors == InitWith(FixedStores, UserLists)

SpecErrors == InitErrors /\ [][NextErrors]_vars

\* Order creation by one user together with the record operations; w2 is
\* deleted, and the user's list is all w2 or w1 followed by w2.
NextCrud ==
    \/ \E c \in Calls : Create(c, "u1")
    \/ \E c \in Calls : FetchWishes(c)
    \/ \E c \in Calls : SessionCreated(c)
    \/ \E c \in Calls, e \in GatewayErrors : SessionFailed(c, e)
    \/ \E c \in Calls : OrderInserted(c)
    \/ \E c \in Calls, e \in DBErrors : OrderInsertFailed(c, e)
    \/ \E dto \in PaginationDtos : findAll(dto)
    \/ \E id \in OrderIds : findOne(id)
    \/ \E id \in OrderIds, dto \in UpdateOrderDtos : update(id, dto)
    \/ \E id \in OrderIds : remove(id)

InitCrud == InitWith({[w \in {"w1"} |-> WishDoc(w)]},
                     {l \in UserLists :
                        /\ Len(l["u1"]) = MaxWishes
                        /\ \A i \in 2..MaxWishes : l["u1"][i] = "w2"})

SpecCrud == InitCrud /\ [][NextCrud]_vars

\* Line-item construction over every wish document.
NextItems ==
    \/ \E c \in Calls, u \in Users : Create(c, u)
    \/ \E c \in Calls : FetchWishes(c)

InitItems == InitWith(AnyStores, UserLists)

SpecItems == InitItems /\ [][NextItems]_vars

TypeOK == \A c \in Calls : pc[c] \in {"idle", "findById", "sessions.create",
                                       "orderModel.create", "done"}

(***************************************************************************)
(* Vocabulary of the properties.                                           *)
(***************************************************************************)
\* the writes a create call made, in order
Writes(c) == SelectSeq(trace[c], LAMBDA ev : ev \in {"session", "insert"})
\* how often a create call called a collaborator operation
Issued(c, what) == Len(SelectSeq(trace[c], LAMBDA ev : ev = what))
IsDuplicateKey(e) == e.origin = "db" /\ e.code.type = "number" /\ e.code.num = 11000
Succeeded(c) == pc[c] = "done" /\ result[c].kind = "Ok"
GenericInternalError ==
    [kind |-> "InternalError",
     message |-> [text |-> "Unexpected error, check server logs", id |-> 0, json |-> ""],
     error |-> NoError, value |-> <<>>]
\* the user's references whose documents exist, in the user's order
LiveRefs(u) == SelectSeq(userWishes[u], LAMBDA w : w \in DOMAIN wishStore)

(***************************************************************************)
(* C1.  Whenever the insert of OrdersService.create or OffersService.create*)
(* fails with a uniqueness violation (code 11000), the caller receives     *)
(* BadRequest carrying the conflicting key/value: never the raw            *)
(* persistence error, never InternalError.                                 *)
(***************************************************************************)
C1_DuplicateKeyIsBadRequest ==
    /\ \A c \in Calls :
        IsDuplicateKey(raised[c]) =>
            /\ result[c].kind = "BadRequest"
            /\ result[c].message.json = raised[c].keyValue
    /\ \A k \in OfferCalls :
        IsDuplicateKey(offerRaised[k]) =>
            /\ offerResult[k].kind = "BadRequest"
            /\ offerResult[k].message.json = offerRaised[k].keyValue

(***************************************************************************)
(* C2.  A create call of a user whose populated wish list is empty ends    *)
(* with NotFound('No wishes found'); it never calls the gateway, creates   *)
(* no session and inserts no order.                                        *)
(***************************************************************************)
C2_EmptyWishesNotFound ==
    \A c \in Calls :
        (pc[c] # "idle" /\ LiveRefs(callUser[c]) = <<>>) =>
            /\ trace[c] = <<"findById">>
            /\ session[c] = NoSession /\ order[c] = NoOrder
            /\ pc[c] \in {"findById", "done"}
            /\ pc[c] = "done" =>
                /\ result[c].kind = "NotFound"
                /\ result[c].message.text = "No wishes found"

\* a finished call of a user who holds references, every one of them dangling
C2_Witness ==
    \E c \in Calls :
        /\ pc[c] = "done" /\ result[c].kind = "NotFound"
        /\ userWishes[callUser[c]] # <<>> /\ LiveRefs(callUser[c]) = <<>>

(***************************************************************************)
(* C3.  A create call that returns successfully created exactly one        *)
(* gateway session and inserted exactly one order, the session first; no   *)
(* call creates more than one of either, so the gateway holds one session  *)
(* per creating call and the store has handed out one identity per         *)
(* inserting call.                                                         *)
(***************************************************************************)
C3_OneSessionOneInsert ==
    /\ \A c \in Calls :
        /\ Succeeded(c) => Writes(c) = <<"session", "insert">>
        /\ Writes(c) \in {<<>>, <<"session">>, <<"session", "insert">>}
        /\ Issued(c, "sessions.create") <= 1 /\ Issued(c, "orderModel.create") <= 1
    /\ Cardinality(sessions) = Cardinality({c \in Calls : Issued(c, "session") > 0})
    /\ nextOrderId - 1 = Cardinality({c \in Calls : Issued(c, "insert") > 0})
    /\ Len(orders) = nextOrderId - 1

\* every call has succeeded
C3_Witness == \A c \in Calls : Succeeded(c)

(***************************************************************************)
(* C4.  When the gateway call of create fails, the gateway was called      *)
(* exactly once, no insert is issued, the caller receives the generic      *)
(* InternalError and the raw error is in the log only.                     *)
(***************************************************************************)
C4_GatewayFailureIsInternalError ==
    \A c \in Calls :
        raised[c].origin = "gateway" =>
            /\ trace[c] = <<"findById", "sessions.create">>
            /\ pc[c] = "done"
            /\ result[c] = GenericInternalError
            /\ \E i \in 1..Len(log) : log[i] = raised[c]

\* one call failed at the gateway while another one got its session
C4_Witness ==
    \E c, d \in Calls :
        /\ raised[c].origin = "gateway"
        /\ session[d] # NoSession

(***************************************************************************)
(* C5.  When the session was created and the insert then fails, the        *)
(* session stays at the gateway in every later state, no order refers to   *)
(* it, and the caller gets an error, not an order.                         *)
(***************************************************************************)
C5_OrphanedSession ==
    \A c \in Calls :
        raised[c].origin = "db" =>
            /\ session[c] \in sessions
            /\ \A i \in 1..Len(orders) : orders[i].paymentLink # session[c].url
            /\ pc[c] = "done"
            /\ result[c].kind \notin {"Ok", "pending"} /\ result[c].value = <<>>
            /\ Writes(c) = <<"session">>

\* a call's insert failed and a later call went through
C5_Witness ==
    \E c, d \in Calls :
        /\ raised[c].origin = "db" /\ Succeeded(d)
        /\ session[d].id > session[c].id

(***************************************************************************)
(* C6.  create never changes a user's wish list, and two create calls of   *)
(* the same user that both succeed, in any interleaving, leave two         *)
(* distinct orders and two distinct sessions over the same wishes.         *)
(***************************************************************************)
C6_StateAfter ==
    \A c, d \in Calls :
        (c # d /\ Succeeded(c) /\ Succeeded(d) /\ callUser[c] = callUser[d]) =>
            LET oc == result[c].value[1]
                od == result[d].value[1]
            IN /\ oc._id # od._id
               /\ \E i, j \in 1..Len(orders) : i # j /\ orders[i] = oc /\ orders[j] = od
               /\ session[c] \in sessions /\ session[d] \in sessions
               /\ session[c].id # session[d].id
               /\ oc.paymentLink # od.paymentLink
               /\ oc.wishes = od.wishes /\ oc.wishes = LiveRefs(callUser[c])
               /\ session[c].line_items = session[d].line_items

C6_NotIdempotent == [][userWishes' = userWishes /\ C6_StateAfter']_vars

\* both calls of one user succeeded, the second one having fetched the wishes
\* before the first one inserted its order
C6_Witness ==
    \E c, d \in Calls :
        /\ c # d /\ Succeeded(c) /\ Succeeded(d) /\ callUser[c] = callUser[d]
        /\ session[c].id < session[d].id
        /\ result[c].value[1]._id > result[d].value[1]._id

C8_OrderRecord ==
    \A c \in Calls :
        Succeeded(c) =>
            /\ order[c].status = "Pending"
            /\ order[c].paid = session[c].amount_total
            /\ order[c].paymentLink = session[c].url
            /\ order[c].user = callUser[c]
            /\ Len(order[c].wishes) = Len(wishes[c])
            /\ \A i \in 1..Len(wishes[c]) : order[c].wishes[i] = wishes[c][i]._id
            /\ order[c].wishes = LiveRefs(callUser[c])
            /\ DOMAIN order[c] = {"createdAt", "paid", "status", "paymentLink", "user", "wishes"}
            /\ \A f \in DOMAIN order[c] : result[c].value[1][f] = order[c][f]

\* a successful call over a list that names one wish twice
C8_Witness ==
    \E c \in Calls :
        /\ Succeeded(c)
        /\ Len(order[c].wishes) = 2 /\ order[c].wishes[1] = order[c].wishes[2]

(***************************************************************************)
(* C9.  The line items sent to the gateway are as many as the wishes and,  *)
(* position by position, have unit amount = sizePrice + photoPrice and     *)
(* quantity = amount of the wish.                                          *)
(***************************************************************************)
C9_LineItems ==
    \A c \in Calls :
        pc[c] = "sessions.create" =>
            /\ wishes[c] # <<>>
            /\ Len(items[c]) = Len(wishes[c])
            /\ \A i \in 1..Len(wishes[c]) :
                /\ items[c][i].price_data.unit_amount
                     = wishes[c][i].sizePrice + wishes[c][i].photoPrice
                /\ items[c][i].quantity = wishes[c][i].amount
                /\ items[c][i].price_data.unit_amount * items[c][i].quantity
                     = (wishes[c][i].sizePrice + wishes[c][i].photoPrice) * wishes[c][i].amount
                /\ items[c][i].price_data.product_data.name = wishes[c][i].material

\* two line items of different unit amounts, both with a photo price
C9_Witness ==
    \E c \in Calls :
        /\ pc[c] = "sessions.create" /\ Len(items[c]) = 2
        /\ items[c][1].price_data.unit_amount > items[c][2].price_data.unit_amount
        /\ wishes[c][1].photoPrice > 0 /\ wishes[c][2].photoPrice > 0

(***************************************************************************)
(* C10.  update on an existing order sets exactly the fields of the patch, *)
(* whatever the status, and returns the new state; update, get and remove  *)
(* of an absent id fail with NotFound and leave the Order Store as it was. *)
(***************************************************************************)
C10_Step ==
    crud' # crud =>
        LET present == \E i \in 1..Len(orders) : orders[i]._id = crud'.id IN
        /\ (crud'.op = "update" /\ present) =>
            /\ crud'.outcome.kind = "Ok"
            /\ Len(orders') = Len(orders)
            /\ \A i \in 1..Len(orders) :
                IF orders[i]._id = crud'.id
                THEN /\ crud'.outcome.value = <<orders'[i]>>
                     /\ \A f \in DOMAIN orders[i] :
                            orders'[i][f] = IF f \in DOMAIN crud'.patch THEN crud'.patch[f]
                                            ELSE orders[i][f]
                ELSE orders'[i] = orders[i]
        /\ (crud'.op \in {"update", "findOne", "remove"} /\ ~present) =>
            /\ crud'.outcome.kind = "NotFound"
            /\ crud'.outcome.message.id = crud'.id
            /\ orders' = orders

C10_UpdateAndNotFound == [][C10_Step]_vars

\* a status regression: an order found as Paid and returned as Pending
C10_Witness ==
    /\ crud.op = "update" /\ crud.found # <<>> /\ crud.outcome.kind = "Ok"
    /\ crud.found[1].status = "Paid"
    /\ crud.outcome.value[1].status = "Pending"

\* an update of an id that is no longer in the store
C10_WitnessAbsent ==
    /\ crud.op = "update" /\ crud.outcome.kind = "NotFound"
    /\ crud.id < nextOrderId

====
